---------------------------- MODULE Spec2Model ----------------------------
(***************************************************************************)
(* Model of the ScrappersIO renderer (render.go): the viewport transformer *)
(* (NewPointTransformer), the per-tick rebuild policy of main's loop, and  *)
(* the draw/convert pipeline made of the driver (main) and the convert     *)
(* goroutines talking over the unbuffered channels index, drawDone and     *)
(* convertDone.                                                            *)
(***************************************************************************)
EXTENDS Integers, Sequences, FiniteSets, TLC

(***************************************************************************)
(* Program constants (render.go, const block).                             *)
(***************************************************************************)
BotSize == 60
MaxBotHealth == 12
Padding == BotSize * 2
ShrinkPercent == 75

(***************************************************************************)
(* Bounds of the exploration.                                              *)
(***************************************************************************)
MaxTicks == 3
MaxThreads == 2
MaxViewTicks == 2
MaxDrawTicks == 1
MaxDataTicks == 3
MaxBots == 2
MaxCoord == 2
MaxPad == 2
MaxSize == 2

VARIABLES
    ticks,          \* the parsed input: a sequence of ticks, each a sequence of bots
    threads,        \* -threads flag
    ticksPerSecond, \* -speed flag
    imageSize,      \* -size flag
    drawn,          \* []*image.RGBA, slot -> frame or NilImage
    converted,      \* []*image.Paletted, slot -> paletted frame or NilImage
    delays,         \* []int
    pc,             \* position of main
    i,              \* main's loop index
    n,              \* main's counter in the two shutdown loops
    tickBounds,     \* main's local tickBounds
    pt,             \* main's local pt
    img,            \* main's local img
    overflowFired,  \* the branch at line 230 was taken for the current tick
    shrinkFired,    \* the branch at line 240 was taken for the current tick
    wpc,            \* position of each convert goroutine
    wi,             \* convert's local i
    wpal,           \* convert's local pal
    published,      \* sequence of the indices sent on the index channel
    received,       \* per goroutine, the sequence of indices it received
    doneSeen,       \* per goroutine, number of drawDone values received
    acks,           \* per goroutine, number of convertDone values sent
    out,            \* the GIF gif.EncodeAll wrote, NoOutput before and when it failed
    ptArgs          \* arguments of a stand-alone NewPointTransformer call

vars == << ticks, threads, ticksPerSecond, imageSize, drawn, converted, delays,
           pc, i, n, tickBounds, pt, img, overflowFired, shrinkFired,
           wpc, wi, wpal, published, received, doneSeen, acks, out, ptArgs >>

(***************************************************************************)
(* Go integer division truncates toward zero.                              *)
(***************************************************************************)
Abs(a) == IF a < 0 THEN -a ELSE a

GoDiv(a, b) ==
    IF (a < 0) = (b < 0) THEN Abs(a) \div Abs(b) ELSE -(Abs(a) \div Abs(b))

(***************************************************************************)
(* Values.                                                                 *)
(***************************************************************************)
Pt(x, y) == [X |-> x, Y |-> y]

Rect(x0, y0, x1, y1) == [Min |-> Pt(x0, y0), Max |-> Pt(x1, y1)]

ZeroRect == Rect(0, 0, 0, 0)

ZeroPT == [Bounds |-> ZeroRect, ratio |-> [num |-> 0, den |-> 1]]

NilImage == [nil |-> TRUE]

NoOutput == [written |-> FALSE]

NoArgs == [bounds |-> ZeroRect, padding |-> 0, maxDim |-> 0]

Bot(pid, x, y, health, fired, shield) ==
    [PID |-> pid, X |-> x, Y |-> y, Health |-> health, Fired |-> fired, Shield |-> shield]

(***************************************************************************)
(* Tick.Bounds: starts from the first bot and widens over all bots.        *)
(* Only called on a non-empty tick; the callers model the index panic.     *)
(***************************************************************************)
RECURSIVE BoundsLoop(_, _, _)
BoundsLoop(bots, k, b) ==
    IF k > Len(bots) THEN b
    ELSE LET bot == bots[k]
             maxX == IF bot.X > b.Max.X THEN bot.X ELSE b.Max.X
             maxY == IF bot.Y > b.Max.Y THEN bot.Y ELSE b.Max.Y
             minX == IF bot.X < b.Min.X THEN bot.X ELSE b.Min.X
             minY == IF bot.Y < b.Min.Y THEN bot.Y ELSE b.Min.Y
         IN  BoundsLoop(bots, k + 1, Rect(minX, minY, maxX, maxY))

Bounds(bots) ==
    BoundsLoop(bots, 1, Rect(bots[1].X, bots[1].Y, bots[1].X, bots[1].Y))

\* Deviation: the padding is not added.
NewPointTransformerNoPadding(bounds, padding, maxDim) ==
    LET xLength == bounds.Max.X - bounds.Min.X
        yLength == bounds.Max.Y - bounds.Min.Y
    IN  IF xLength > yLength
        THEN LET extra == xLength - yLength
             IN  [Bounds |-> Rect(bounds.Min.X, bounds.Min.Y - GoDiv(extra, 2),
                                  bounds.Max.X, bounds.Max.Y + GoDiv(extra, 2)),
                  ratio  |-> [num |-> maxDim, den |-> xLength]]
        ELSE LET extra == yLength - xLength
             IN  [Bounds |-> Rect(bounds.Min.X - GoDiv(extra, 2), bounds.Min.Y,
                                  bounds.Max.X + GoDiv(extra, 2), bounds.Max.Y),
                  ratio  |-> [num |-> maxDim, den |-> yLength]]

\* Deviation: the whole difference is put on the Min side of the shorter axis.
NewPointTransformerOneSided(bounds, padding, maxDim) ==
    LET minX == bounds.Min.X - padding
        minY == bounds.Min.Y - padding
        maxX == bounds.Max.X + padding
        maxY == bounds.Max.Y + padding
        xLength == maxX - minX
        yLength == maxY - minY
    IN  IF xLength > yLength
        THEN [Bounds |-> Rect(minX, minY - (xLength - yLength), maxX, maxY),
              ratio  |-> [num |-> maxDim, den |-> xLength]]
        ELSE [Bounds |-> Rect(minX - (yLength - xLength), minY, maxX, maxY),
              ratio  |-> [num |-> maxDim, den |-> yLength]]

(***************************************************************************)
(* NewPointTransformer.  The ratio is kept as the two integers the code    *)
(* divides; its value is their float64 quotient, F64Div(num, den).         *)
(***************************************************************************)
NewPointTransformer(bounds, padding, maxDim) ==
    LET minX == bounds.Min.X - padding
        minY == bounds.Min.Y - padding
        maxX == bounds.Max.X + padding
        maxY == bounds.Max.Y + padding
        xLength == maxX - minX
        yLength == maxY - minY
    IN  IF xLength > yLength
        THEN LET extra == xLength - yLength
             IN  [Bounds |-> Rect(minX, minY - GoDiv(extra, 2), maxX, maxY + GoDiv(extra, 2)),
                  ratio  |-> [num |-> maxDim, den |-> xLength]]
        ELSE LET extra == yLength - xLength
             IN  [Bounds |-> Rect(minX - GoDiv(extra, 2), minY, maxX + GoDiv(extra, 2), maxY),
                  ratio  |-> [num |-> maxDim, den |-> yLength]]

(***************************************************************************)
(* float64.  A finite non-zero value is sign, exponent and the 53 bits of  *)
(* its significand, first bit 1: the value is 1.b2..b53 * 2^exp.  Every    *)
(* operation rounds its exact result to 53 bits, ties to even, as IEEE 754 *)
(* does.  Exponents stay far inside the float64 range for the integers     *)
(* handled here, so there are no subnormal results and no overflow.  The   *)
(* two zeros compare equal in Go and are kept as one.                      *)
(***************************************************************************)
Frac(a, b) == [num |-> a, den |-> b]

F64Zero == [cls |-> "fin", neg |-> FALSE, exp |-> 0, man |-> << >>]

F64NaN == [cls |-> "nan", neg |-> FALSE, exp |-> 0, man |-> << >>]

F64Inf(neg) == [cls |-> "inf", neg |-> neg, exp |-> 0, man |-> << >>]

IsNaN(f) == f.cls = "nan"

RECURSIVE BitsOf(_)
\* The binary digits of k >= 0, first digit 1.
BitsOf(k) == IF k = 0 THEN << >> ELSE Append(BitsOf(k \div 2), k % 2)

\* The w binary digits of v, for 0 <= v < 2^w.
PadBits(v, w) == [j \in 1..w |-> (v \div 2^(w - j)) % 2]

\* The float64 next below a positive finite v.
NextDown(v) ==
    LET ones == { j \in 2..53 : v.man[j] = 1 }
    IN  IF ones = {}
        THEN [cls |-> "fin", neg |-> FALSE, exp |-> v.exp - 1, man |-> [j \in 1..53 |-> 1]]
        ELSE LET k == CHOOSE j \in ones : \A m \in ones : m <= j
             IN  [cls |-> "fin", neg |-> FALSE, exp |-> v.exp,
                  man |-> [j \in 1..53 |-> IF j < k THEN v.man[j] ELSE IF j = k THEN 0 ELSE 1]]

RECURSIVE ValueOf(_, _)
\* The integer written by the digits s[1..j].
ValueOf(s, j) == IF j = 0 THEN 0 ELSE 2 * ValueOf(s, j - 1) + s[j]

\* Digits are worked out 13 at a time, which keeps every intermediate
\* integer below 2^31 for divisors and factors below 2^17.
ChunkBits == 13

RECURSIVE DivBits(_, _, _)
\* The next cnt binary digits of r / d for 0 <= r < d, and the remainder left.
DivBits(r, d, cnt) ==
    IF cnt = 0
    THEN [bits |-> << >>, rem |-> r]
    ELSE LET w == IF cnt < ChunkBits THEN cnt ELSE ChunkBits
             t == r * 2^w
             rest == DivBits(t % d, d, cnt - w)
         IN  [bits |-> PadBits(t \div d, w) \o rest.bits, rem |-> rest.rem]

RECURSIVE LeadBit(_, _, _)
\* For 0 < r < d: the place k >= 1 of the first digit 1 of r / d and the remainder after it.
LeadBit(r, d, k) ==
    IF 2 * r >= d THEN [exp |-> 0 - k, rem |-> 2 * r - d] ELSE LeadBit(2 * r, d, k + 1)

\* The 53 digits s plus one unit in the last place.
IncBits(s, exp) ==
    LET zeros == { j \in 1..53 : s[j] = 0 }
    IN  IF zeros = {}
        THEN [man |-> [j \in 1..53 |-> IF j = 1 THEN 1 ELSE 0], exp |-> exp + 1]
        ELSE LET k == CHOOSE j \in zeros : \A m \in zeros : m <= j
             IN  [man |-> [j \in 1..53 |-> IF j < k THEN s[j] ELSE IF j = k THEN 1 ELSE 0],
                  exp |-> exp]

\* Round to nearest, ties to even: bits are the leading digits of the exact
\* result (first digit 1), sticky says that digits 1 follow after them.
RoundBits(bits, sticky, exp, neg) ==
    IF Len(bits) <= 53
    THEN [cls |-> "fin", neg |-> neg, exp |-> exp,
          man |-> [j \in 1..53 |-> IF j <= Len(bits) THEN bits[j] ELSE 0]]
    ELSE LET keep == [j \in 1..53 |-> bits[j]]
             rest == sticky \/ \E j \in 55..Len(bits) : bits[j] = 1
             up == bits[54] = 1 /\ (rest \/ keep[53] = 1)
             r == IF up THEN IncBits(keep, exp) ELSE [man |-> keep, exp |-> exp]
         IN  [cls |-> "fin", neg |-> neg, exp |-> r.exp, man |-> r.man]

\* float64(k) for an integer k.
F64FromInt(k) ==
    IF k = 0 THEN F64Zero
    ELSE LET bits == BitsOf(Abs(k)) IN RoundBits(bits, FALSE, Len(bits) - 1, k < 0)

\* float64(a) / float64(b) for integers a and b; a division by 0.0 gives
\* +Inf or -Inf, and NaN for 0.0 / 0.0.
F64Div(a, b) ==
    IF b = 0 THEN (IF a = 0 THEN F64NaN ELSE F64Inf(a < 0))
    ELSE IF a = 0 THEN F64Zero
    ELSE LET m == Abs(a)
             d == Abs(b)
             neg == (a < 0) # (b < 0)
             whole == BitsOf(m \div d)
         IN  IF whole # << >>
             THEN LET f == DivBits(m % d, d, 54 - Len(whole))
                  IN  RoundBits(whole \o f.bits, f.rem # 0, Len(whole) - 1, neg)
             ELSE LET l == LeadBit(m, d, 1)
                      f == DivBits(l.rem, d, 53)
                  IN  RoundBits(<< 1 >> \o f.bits, f.rem # 0, l.exp, neg)

RECURSIVE MulBits(_, _, _, _)
\* The digits of s[1..j] * m + c for a positive integer m.
MulBits(s, m, j, c) ==
    IF j = 0 THEN BitsOf(c)
    ELSE LET lo == IF j < ChunkBits THEN 1 ELSE j - ChunkBits + 1
             w == j - lo + 1
             t == ValueOf(SubSeq(s, lo, j), w) * m + c
         IN  MulBits(s, m, lo - 1, t \div 2^w) \o PadBits(t % 2^w, w)

\* v * float64(k): Inf * 0 is NaN, Inf * k keeps or flips the sign.
F64MulInt(v, k) ==
    IF v.cls = "nan" THEN F64NaN
    ELSE IF v.cls = "inf" THEN (IF k = 0 THEN F64NaN ELSE F64Inf(v.neg # (k < 0)))
    ELSE IF v.man = << >> \/ k = 0 THEN F64Zero
    ELSE LET prod == MulBits(v.man, Abs(k), 53, 0)
         IN  RoundBits(prod, FALSE, v.exp + (Len(prod) - 53), v.neg # (k < 0))

\* The float64 next above a positive finite v.
NextUp(v) ==
    LET r == IncBits(v.man, v.exp)
    IN  [cls |-> "fin", neg |-> FALSE, exp |-> r.exp, man |-> r.man]

\* |v| of a finite v as its integer part and whether a fraction follows;
\* from 2^31 on the integer part is kept as 2^31 - 1, above every integer compared with.
Mag(v) ==
    IF v.man = << >> THEN [int |-> 0, frac |-> FALSE]
    ELSE IF v.exp < 0 THEN [int |-> 0, frac |-> TRUE]
    ELSE IF v.exp > 30 THEN [int |-> 2147483647, frac |-> TRUE]
    ELSE [int |-> ValueOf(v.man, v.exp + 1),
          frac |-> \E j \in (v.exp + 2)..53 : v.man[j] = 1]

\* a == b in Go: false when either is NaN.
F64Eq(a, b) == a.cls # "nan" /\ b.cls # "nan" /\ a = b

\* f * float64(k), where f holds the two integers whose float64 quotient is the ratio.
FMulInt(f, k) == F64MulInt(F64Div(f.num, f.den), k)

\* float64(k) <= v for an integer k; every comparison with NaN is false.
IntLeqF(k, v) ==
    IF v.cls = "nan" THEN FALSE
    ELSE IF v.cls = "inf" THEN ~v.neg
    ELSE LET m == Mag(v)
         IN  IF v.neg THEN k < 0 - m.int \/ (k = 0 - m.int /\ ~m.frac)
                      ELSE k <= m.int

\* v <= float64(k) for an integer k.
FLeqInt(v, k) ==
    IF v.cls = "nan" THEN FALSE
    ELSE IF v.cls = "inf" THEN v.neg
    ELSE LET m == Mag(v)
         IN  IF v.neg THEN 0 - m.int <= k
                      ELSE m.int < k \/ (m.int = k /\ ~m.frac)

\* v == float64(k) for an integer k.
FEqInt(v, k) ==
    /\ v.cls = "fin"
    /\ LET m == Mag(v)
       IN  ~m.frac /\ k = (IF v.neg THEN 0 - m.int ELSE m.int)

\* Deviation: the offset of the box is not taken off.
XNoOffset(p, x) == FMulInt(p.ratio, x)

(***************************************************************************)
(* PointTransformer.X, .Y and .Resize.                                     *)
(***************************************************************************)
X(p, x) == FMulInt(p.ratio, x + (-1) * p.Bounds.Min.X)

Y(p, y) == FMulInt(p.ratio, y + (-1) * p.Bounds.Min.Y)

Resize(p, val) == FMulInt(p.ratio, val)

(***************************************************************************)
(* Deviations from the code, used to test that the properties below depend *)
(* on the code they are about.  Each stands right before the definition it *)
(* deviates from.                                                          *)
(***************************************************************************)
\* Deviation: the margin tested is wider than the padding.
OverflowCondWideMargin(tb, p) ==
    \/ tb.Min.Y - (Padding + 1) < p.Bounds.Min.Y
    \/ tb.Min.X - (Padding + 1) < p.Bounds.Min.X
    \/ tb.Max.Y + (Padding + 1) > p.Bounds.Max.Y
    \/ tb.Max.X + (Padding + 1) > p.Bounds.Max.X

\* Deviation: only the Min sides are tested.
OverflowCondMinOnly(tb, p) ==
    \/ tb.Min.Y - BotSize < p.Bounds.Min.Y
    \/ tb.Min.X - BotSize < p.Bounds.Min.X

(***************************************************************************)
(* The two rebuild tests of main's loop.                                   *)
(***************************************************************************)
OverflowCond(tb, p) ==
    \/ tb.Min.Y - BotSize < p.Bounds.Min.Y
    \/ tb.Min.X - BotSize < p.Bounds.Min.X
    \/ tb.Max.Y + BotSize > p.Bounds.Max.Y
    \/ tb.Max.X + BotSize > p.Bounds.Max.X

ThisYSize(tb) == tb.Max.Y - tb.Min.Y

ThisXSize(tb) == tb.Max.X - tb.Min.X

PtYSize(p) == p.Bounds.Max.Y - p.Bounds.Min.Y

PtXSize(p) == p.Bounds.Max.X - p.Bounds.Min.X

\* The && is short-circuit: the X quotient is computed only when the Y test passed.
ShrinkDividesByZero(tb, p) ==
    \/ PtYSize(p) = 0
    \/ /\ GoDiv(ThisYSize(tb) * 100, PtYSize(p)) <= ShrinkPercent
       /\ PtXSize(p) = 0

\* Deviation: < instead of <=.
ShrinkCondStrict(tb, p) ==
    /\ GoDiv(ThisYSize(tb) * 100, PtYSize(p)) < ShrinkPercent
    /\ GoDiv(ThisXSize(tb) * 100, PtXSize(p)) < ShrinkPercent

ShrinkCond(tb, p) ==
    /\ GoDiv(ThisYSize(tb) * 100, PtYSize(p)) <= ShrinkPercent
    /\ GoDiv(ThisXSize(tb) * 100, PtXSize(p)) <= ShrinkPercent

(***************************************************************************)
(* Drawing one frame.  The body loop stops the process with log.Fatalf at  *)
(* the first bot that is alive and belongs to neither player 1 nor 2; dead *)
(* bots are skipped before the player test.  The frame is kept as what     *)
(* determines its pixels: the raster size, the bots and the transformer.   *)
(***************************************************************************)
\* Deviation: the final else branch draws instead of stopping.
DrawNeverFatal(bots) == FALSE

DrawFatal(bots) ==
    \E k \in 1..Len(bots) : ~(bots[k].Health <= 0) /\ bots[k].PID # 1 /\ bots[k].PID # 2

DrawFrame(bots, p, size) == [Size |-> size, Bots |-> bots, View |-> p]

(***************************************************************************)
(* The drawing operations of one frame, in the order main issues them:     *)
(* each Stroke, Fill or FillStroke with the layer it belongs to, the bot   *)
(* it is for (0 for none) and the raster position it is drawn at.          *)
(***************************************************************************)
GridLineSpacing == 180

Op(layer, k, fx, fy) == [layer |-> layer, bot |-> k, x |-> fx, y |-> fy]

\* Lines 250-257 (axis "x") and 258-265 (axis "y"): the loop visits every
\* coordinate from Min to Max and draws at those with v % GridLineSpacing == 0,
\* which are first, first + spacing, ... up to Max.
GridOps(p, axis) ==
    LET lo == IF axis = "x" THEN p.Bounds.Min.X ELSE p.Bounds.Min.Y
        hi == IF axis = "x" THEN p.Bounds.Max.X ELSE p.Bounds.Max.Y
        first == lo + ((-lo) % GridLineSpacing)
        count == IF first > hi THEN 0 ELSE ((hi - first) \div GridLineSpacing) + 1
    IN  [j \in 1..count |->
            LET v == first + (j - 1) * GridLineSpacing
            IN  IF axis = "x"
                THEN Op("grid", 0, X(p, v), Y(p, p.Bounds.Min.Y))
                ELSE Op("grid", 0, X(p, p.Bounds.Min.X), Y(p, v))]

\* Lines 267-312: the nine letters, 150 apart from (-650, -100).
LogoOps(p) == [j \in 1..9 |-> Op("logo", 0, X(p, -650 + 150 * (j - 1)), Y(p, -100))]

RECURSIVE ShotOps(_, _, _)
\* Lines 318-325.
ShotOps(bots, p, k) ==
    IF k > Len(bots) THEN << >>
    ELSE (IF bots[k].Fired
          THEN << Op("shot", k, X(p, bots[k].X), Y(p, bots[k].Y)) >>
          ELSE << >>) \o ShotOps(bots, p, k + 1)

RECURSIVE ExplosionOps(_, _, _)
\* Lines 330-336.
ExplosionOps(bots, p, k) ==
    IF k > Len(bots) THEN << >>
    ELSE (IF bots[k].Health <= 0
          THEN << Op("explosion", k, X(p, bots[k].X), Y(p, bots[k].Y)) >>
          ELSE << >>) \o ExplosionOps(bots, p, k + 1)

RECURSIVE BotOps(_, _, _)
\* Lines 339-396: per living bot its body, its health mark when healthSize > 0,
\* and its shield; the loop ends at a bot of a third player.
BotOps(bots, p, k) ==
    IF k > Len(bots) THEN << >>
    ELSE LET bot == bots[k]
             fx == X(p, bot.X)
             fy == Y(p, bot.Y)
         IN  IF bot.Health <= 0 THEN BotOps(bots, p, k + 1)
             ELSE IF bot.PID # 1 /\ bot.PID # 2 THEN << >>
             ELSE << Op("body", k, fx, fy) >>
                  \o (IF MaxBotHealth - bot.Health > 0
                      THEN << Op("health", k, fx, fy) >> ELSE << >>)
                  \o (IF bot.Shield THEN << Op("shield", k, fx, fy) >> ELSE << >>)
                  \o BotOps(bots, p, k + 1)

\* Deviation: the explosions are drawn after the bodies and shields.
DrawOpsExplosionsLast(bots, p) ==
    GridOps(p, "x") \o GridOps(p, "y") \o LogoOps(p)
        \o ShotOps(bots, p, 1) \o BotOps(bots, p, 1) \o ExplosionOps(bots, p, 1)

DrawOps(bots, p) ==
    GridOps(p, "x") \o GridOps(p, "y") \o LogoOps(p)
        \o ShotOps(bots, p, 1) \o ExplosionOps(bots, p, 1) \o BotOps(bots, p, 1)

(***************************************************************************)
(* convert's palette conversion of one frame (lines 444-445).              *)
(***************************************************************************)
Quantize(frame) == [Palette |-> "Plan9", Rect |-> frame.Size, Dithered |-> frame]

Slots == 0..(Len(ticks) - 1)

Workers == 1..threads

Running == pc \notin {"panic", "fatal", "done", "call", "return"}

(***************************************************************************)
(* main, lines 218-219: the initial transformer from ticks[0].             *)
(***************************************************************************)
InitialTransformer ==
    /\ pc = "init"
    /\ IF Len(ticks) = 0 \/ Len(ticks[1]) = 0
       THEN /\ pc' = "panic"
            /\ UNCHANGED << tickBounds, pt >>
       ELSE /\ tickBounds' = Bounds(ticks[1])
            /\ pt' = NewPointTransformer(Bounds(ticks[1]), Padding, imageSize)
            /\ pc' = "bounds"
    /\ UNCHANGED << ticks, threads, ticksPerSecond, imageSize, drawn, converted, delays,
                    i, n, img, overflowFired, shrinkFired,
                    wpc, wi, wpal, published, received, doneSeen, acks, out, ptArgs >>

\* Deviation: Bounds of an empty tick yields the zero rectangle.
TickBoundsZeroOnEmpty ==
    /\ pc = "bounds"
    /\ tickBounds' = IF Len(ticks[i + 1]) = 0 THEN ZeroRect ELSE Bounds(ticks[i + 1])
    /\ pc' = "overflow"
    /\ overflowFired' = FALSE
    /\ shrinkFired' = FALSE
    /\ UNCHANGED << ticks, threads, ticksPerSecond, imageSize, drawn, converted, delays,
                    i, n, pt, img,
                    wpc, wi, wpal, published, received, doneSeen, acks, out, ptArgs >>

(***************************************************************************)
(* main, line 225: tickBounds = tick.Bounds().                             *)
(***************************************************************************)
TickBounds ==
    /\ pc = "bounds"
    /\ IF Len(ticks[i + 1]) = 0
       THEN /\ pc' = "panic"
            /\ UNCHANGED tickBounds
       ELSE /\ tickBounds' = Bounds(ticks[i + 1])
            /\ pc' = "overflow"
    /\ overflowFired' = FALSE
    /\ shrinkFired' = FALSE
    /\ UNCHANGED << ticks, threads, ticksPerSecond, imageSize, drawn, converted, delays,
                    i, n, pt, img,
                    wpc, wi, wpal, published, received, doneSeen, acks, out, ptArgs >>

\* Deviation: the rebuild uses the bounds of the first tick.
OverflowCheckFromFirstTick ==
    /\ pc = "overflow"
    /\ IF OverflowCond(tickBounds, pt)
       THEN /\ pt' = NewPointTransformer(Bounds(ticks[1]), Padding, imageSize)
            /\ overflowFired' = TRUE
       ELSE UNCHANGED << pt, overflowFired >>
    /\ pc' = "shrink"
    /\ UNCHANGED << ticks, threads, ticksPerSecond, imageSize, drawn, converted, delays,
                    i, n, tickBounds, img, shrinkFired,
                    wpc, wi, wpal, published, received, doneSeen, acks, out, ptArgs >>

(***************************************************************************)
(* main, lines 226-231: rebuild when a bot would leave the view.           *)
(***************************************************************************)
OverflowCheck ==
    /\ pc = "overflow"
    /\ IF OverflowCond(tickBounds, pt)
       THEN /\ pt' = NewPointTransformer(tickBounds, Padding, imageSize)
            /\ overflowFired' = TRUE
       ELSE UNCHANGED << pt, overflowFired >>
    /\ pc' = "shrink"
    /\ UNCHANGED << ticks, threads, ticksPerSecond, imageSize, drawn, converted, delays,
                    i, n, tickBounds, img, shrinkFired,
                    wpc, wi, wpal, published, received, doneSeen, acks, out, ptArgs >>

(***************************************************************************)
(* main, lines 235-241: rebuild when the bots fill little of the view.     *)
(***************************************************************************)
ShrinkCheck ==
    /\ pc = "shrink"
    /\ IF ShrinkDividesByZero(tickBounds, pt)
       THEN /\ pc' = "panic"
            /\ UNCHANGED << pt, shrinkFired >>
       ELSE /\ pc' = "draw"
            /\ IF ShrinkCond(tickBounds, pt)
               THEN /\ pt' = NewPointTransformer(tickBounds, Padding, imageSize)
                    /\ shrinkFired' = TRUE
               ELSE UNCHANGED << pt, shrinkFired >>
    /\ UNCHANGED << ticks, threads, ticksPerSecond, imageSize, drawn, converted, delays,
                    i, n, tickBounds, img, overflowFired,
                    wpc, wi, wpal, published, received, doneSeen, acks, out, ptArgs >>

(***************************************************************************)
(* main, lines 244-396: draw the frame into the local img.                 *)
(***************************************************************************)
Draw ==
    /\ pc = "draw"
    /\ IF DrawFatal(ticks[i + 1])
       THEN /\ pc' = "fatal"
            /\ UNCHANGED img
       ELSE /\ img' = DrawFrame(ticks[i + 1], pt, imageSize)
            /\ pc' = "store"
    /\ UNCHANGED << ticks, threads, ticksPerSecond, imageSize, drawn, converted, delays,
                    i, n, tickBounds, pt, overflowFired, shrinkFired,
                    wpc, wi, wpal, published, received, doneSeen, acks, out, ptArgs >>

(***************************************************************************)
(* main, lines 398-399: drawn[i] = img; delays[i] = 100 / speed.           *)
(***************************************************************************)
Store ==
    /\ pc = "store"
    /\ drawn' = [drawn EXCEPT ![i] = img]
    /\ delays' = [delays EXCEPT ![i] = GoDiv(100, ticksPerSecond)]
    /\ pc' = "publish"
    /\ UNCHANGED << ticks, threads, ticksPerSecond, imageSize, converted,
                    i, n, tickBounds, pt, img, overflowFired, shrinkFired,
                    wpc, wi, wpal, published, received, doneSeen, acks, out, ptArgs >>

\* Deviation: every goroutine waiting in select takes the published index.
PublishBroadcast(w) ==
    /\ pc = "publish"
    /\ wpc[w] = "select"
    /\ wi' = [v \in Workers |-> IF wpc[v] = "select" THEN i ELSE wi[v]]
    /\ wpc' = [v \in Workers |-> IF wpc[v] = "select" THEN "convert" ELSE wpc[v]]
    /\ published' = Append(published, i)
    /\ received' = [v \in Workers |->
                       IF wpc[v] = "select" THEN Append(received[v], i) ELSE received[v]]
    /\ i' = i + 1
    /\ pc' = IF i + 1 < Len(ticks) THEN "bounds" ELSE "linger"
    /\ UNCHANGED << ticks, threads, ticksPerSecond, imageSize, drawn, converted, delays,
                    n, tickBounds, pt, img, overflowFired, shrinkFired,
                    wpal, doneSeen, acks, out, ptArgs >>

\* Deviation: the send completes with a goroutine that is still converting,
\* which drops the index it had.
PublishToBusy(w) ==
    /\ pc = "publish"
    /\ wpc[w] \in {"select", "convert", "put", "clear"}
    /\ wi' = [wi EXCEPT ![w] = i]
    /\ wpc' = [wpc EXCEPT ![w] = "convert"]
    /\ published' = Append(published, i)
    /\ received' = [received EXCEPT ![w] = Append(@, i)]
    /\ i' = i + 1
    /\ pc' = IF i + 1 < Len(ticks) THEN "bounds" ELSE "linger"
    /\ UNCHANGED << ticks, threads, ticksPerSecond, imageSize, drawn, converted, delays,
                    n, tickBounds, pt, img, overflowFired, shrinkFired,
                    wpal, doneSeen, acks, out, ptArgs >>

\* Deviation: the loop is left one tick early.
PublishLeavesEarly(w) ==
    /\ pc = "publish"
    /\ wpc[w] = "select"
    /\ wi' = [wi EXCEPT ![w] = i]
    /\ wpc' = [wpc EXCEPT ![w] = "convert"]
    /\ published' = Append(published, i)
    /\ received' = [received EXCEPT ![w] = Append(@, i)]
    /\ i' = i + 1
    /\ pc' = IF i + 2 < Len(ticks) THEN "bounds" ELSE "linger"
    /\ UNCHANGED << ticks, threads, ticksPerSecond, imageSize, drawn, converted, delays,
                    n, tickBounds, pt, img, overflowFired, shrinkFired,
                    wpal, doneSeen, acks, out, ptArgs >>

(***************************************************************************)
(* main, line 400 with convert, line 442: index is unbuffered, so the send *)
(* completes together with the receive of a goroutine waiting in select.   *)
(* The range loop then moves to the next tick or leaves the loop.          *)
(***************************************************************************)
Publish(w) ==
    /\ pc = "publish"
    /\ wpc[w] = "select"
    /\ wi' = [wi EXCEPT ![w] = i]
    /\ wpc' = [wpc EXCEPT ![w] = "convert"]
    /\ published' = Append(published, i)
    /\ received' = [received EXCEPT ![w] = Append(@, i)]
    /\ i' = i + 1
    /\ pc' = IF i + 1 < Len(ticks) THEN "bounds" ELSE "linger"
    /\ UNCHANGED << ticks, threads, ticksPerSecond, imageSize, drawn, converted, delays,
                    n, tickBounds, pt, img, overflowFired, shrinkFired,
                    wpal, doneSeen, acks, out, ptArgs >>

\* Deviation: the two assignments in the other order.
LingerLastThenFirst ==
    /\ pc = "linger"
    /\ delays' = [[delays EXCEPT ![Len(ticks) - 1] = GoDiv(100, ticksPerSecond) * 10]
                     EXCEPT ![0] = GoDiv(100, 100)]
    /\ n' = 1
    /\ pc' = "signal"
    /\ UNCHANGED << ticks, threads, ticksPerSecond, imageSize, drawn, converted,
                    i, tickBounds, pt, img, overflowFired, shrinkFired,
                    wpc, wi, wpal, published, received, doneSeen, acks, out, ptArgs >>

(***************************************************************************)
(* main, lines 405-406: the first and the last delay.                      *)
(***************************************************************************)
Linger ==
    /\ pc = "linger"
    /\ delays' = [[delays EXCEPT ![0] = GoDiv(100, 100)]
                     EXCEPT ![Len(ticks) - 1] = GoDiv(100, ticksPerSecond) * 10]
    /\ n' = 1
    /\ pc' = "signal"
    /\ UNCHANGED << ticks, threads, ticksPerSecond, imageSize, drawn, converted,
                    i, tickBounds, pt, img, overflowFired, shrinkFired,
                    wpc, wi, wpal, published, received, doneSeen, acks, out, ptArgs >>

\* Deviation: a goroutine takes the shutdown signal while it is converting.
SignalDoneWhileBusy(w) ==
    /\ pc = "signal"
    /\ wpc[w] \in {"select", "convert", "put", "clear"}
    /\ wpc' = [wpc EXCEPT ![w] = "ack"]
    /\ doneSeen' = [doneSeen EXCEPT ![w] = @ + 1]
    /\ IF n + 1 <= threads
       THEN /\ n' = n + 1
            /\ pc' = "signal"
       ELSE /\ n' = 1
            /\ pc' = "wait"
    /\ UNCHANGED << ticks, threads, ticksPerSecond, imageSize, drawn, converted, delays,
                    i, tickBounds, pt, img, overflowFired, shrinkFired,
                    wi, wpal, published, received, acks, out, ptArgs >>

\* Deviation: a goroutine returns on the shutdown signal without acknowledging it.
SignalDoneNoAck(w) ==
    /\ pc = "signal"
    /\ wpc[w] = "select"
    /\ wpc' = [wpc EXCEPT ![w] = "exit"]
    /\ doneSeen' = [doneSeen EXCEPT ![w] = @ + 1]
    /\ IF n + 1 <= threads
       THEN /\ n' = n + 1
            /\ pc' = "signal"
       ELSE /\ n' = 1
            /\ pc' = "wait"
    /\ UNCHANGED << ticks, threads, ticksPerSecond, imageSize, drawn, converted, delays,
                    i, tickBounds, pt, img, overflowFired, shrinkFired,
                    wi, wpal, published, received, acks, out, ptArgs >>

(***************************************************************************)
(* main, lines 409-411 with convert, line 439: one drawDone per iteration, *)
(* taken by a goroutine waiting in select.                                 *)
(***************************************************************************)
SignalDone(w) ==
    /\ pc = "signal"
    /\ wpc[w] = "select"
    /\ wpc' = [wpc EXCEPT ![w] = "ack"]
    /\ doneSeen' = [doneSeen EXCEPT ![w] = @ + 1]
    /\ IF n + 1 <= threads
       THEN /\ n' = n + 1
            /\ pc' = "signal"
       ELSE /\ n' = 1
            /\ pc' = "wait"
    /\ UNCHANGED << ticks, threads, ticksPerSecond, imageSize, drawn, converted, delays,
                    i, tickBounds, pt, img, overflowFired, shrinkFired,
                    wi, wpal, published, received, acks, out, ptArgs >>

(***************************************************************************)
(* main, lines 414-416 with convert, lines 440-441: one convertDone per    *)
(* iteration, sent by a goroutine that then returns.                       *)
(***************************************************************************)
AwaitDone(w) ==
    /\ pc = "wait"
    /\ wpc[w] = "ack"
    /\ wpc' = [wpc EXCEPT ![w] = "exit"]
    /\ acks' = [acks EXCEPT ![w] = @ + 1]
    /\ IF n + 1 <= threads
       THEN /\ n' = n + 1
            /\ pc' = "wait"
       ELSE /\ n' = n
            /\ pc' = "encode"
    /\ UNCHANGED << ticks, threads, ticksPerSecond, imageSize, drawn, converted, delays,
                    i, tickBounds, pt, img, overflowFired, shrinkFired,
                    wi, wpal, published, received, doneSeen, out, ptArgs >>

(***************************************************************************)
(* main, lines 419-430: the frames and delays go to gif.EncodeAll.  The    *)
(* error of os.OpenFile is dropped at line 420, so a path that cannot be   *)
(* opened or written shows as the error of gif.EncodeAll: then log.Fatalf  *)
(* at line 427 ends the process and no GIF is written.                     *)
(***************************************************************************)
Encode ==
    /\ pc = "encode"
    /\ \E err \in BOOLEAN :
          IF err
          THEN /\ pc' = "fatal"
               /\ out' = out
          ELSE /\ out' = [written |-> TRUE, Image |-> converted, Delay |-> delays]
               /\ pc' = "done"
    /\ UNCHANGED << ticks, threads, ticksPerSecond, imageSize, drawn, converted, delays,
                    i, n, tickBounds, pt, img, overflowFired, shrinkFired,
                    wpc, wi, wpal, published, received, doneSeen, acks, ptArgs >>

(***************************************************************************)
(* convert, lines 443-445: read drawn[i] and build the paletted image.     *)
(* img.Bounds() on a nil image is a nil dereference, which ends the        *)
(* process.                                                                *)
(***************************************************************************)
Convert(w) ==
    /\ Running
    /\ wpc[w] = "convert"
    /\ IF drawn[wi[w]] = NilImage
       THEN /\ pc' = "panic"
            /\ UNCHANGED << wpc, wpal >>
       ELSE /\ wpal' = [wpal EXCEPT ![w] = Quantize(drawn[wi[w]])]
            /\ wpc' = [wpc EXCEPT ![w] = "put"]
            /\ UNCHANGED pc
    /\ UNCHANGED << ticks, threads, ticksPerSecond, imageSize, drawn, converted, delays,
                    i, n, tickBounds, pt, img, overflowFired, shrinkFired,
                    wi, published, received, doneSeen, acks, out, ptArgs >>

\* Deviation: the paletted frame goes to the first free slot, in order of completion.
PutConvertedInCompletionOrder(w) ==
    /\ Running
    /\ wpc[w] = "put"
    /\ LET free == CHOOSE k \in Slots :
                      /\ converted[k] = NilImage
                      /\ \A j \in 0..(k - 1) : converted[j] # NilImage
       IN  converted' = [converted EXCEPT ![free] = wpal[w]]
    /\ wpc' = [wpc EXCEPT ![w] = "clear"]
    /\ UNCHANGED << ticks, threads, ticksPerSecond, imageSize, drawn, delays,
                    pc, i, n, tickBounds, pt, img, overflowFired, shrinkFired,
                    wi, wpal, published, received, doneSeen, acks, out, ptArgs >>

(***************************************************************************)
(* convert, line 446: converted[i] = pal.                                  *)
(***************************************************************************)
PutConverted(w) ==
    /\ Running
    /\ wpc[w] = "put"
    /\ converted' = [converted EXCEPT ![wi[w]] = wpal[w]]
    /\ wpc' = [wpc EXCEPT ![w] = "clear"]
    /\ UNCHANGED << ticks, threads, ticksPerSecond, imageSize, drawn, delays,
                    pc, i, n, tickBounds, pt, img, overflowFired, shrinkFired,
                    wi, wpal, published, received, doneSeen, acks, out, ptArgs >>

(***************************************************************************)
(* convert, line 447: drawn[i] = nil, then back to the select.             *)
(***************************************************************************)
ClearDrawn(w) ==
    /\ Running
    /\ wpc[w] = "clear"
    /\ drawn' = [drawn EXCEPT ![wi[w]] = NilImage]
    /\ wpc' = [wpc EXCEPT ![w] = "select"]
    /\ UNCHANGED << ticks, threads, ticksPerSecond, imageSize, converted, delays,
                    pc, i, n, tickBounds, pt, img, overflowFired, shrinkFired,
                    wi, wpal, published, received, doneSeen, acks, out, ptArgs >>

(***************************************************************************)
(* A stand-alone call NewPointTransformer(bounds, padding, maxDim).        *)
(***************************************************************************)
CallNewPointTransformer ==
    /\ pc = "call"
    /\ pt' = NewPointTransformer(ptArgs.bounds, ptArgs.padding, ptArgs.maxDim)
    /\ pc' = "return"
    /\ UNCHANGED << ticks, threads, ticksPerSecond, imageSize, drawn, converted, delays,
                    i, n, tickBounds, img, overflowFired, shrinkFired,
                    wpc, wi, wpal, published, received, doneSeen, acks, out, ptArgs >>

(***************************************************************************)
(* Inputs.                                                                 *)
(***************************************************************************)
Speeds == {12, 100}

ImageSizes == {600}

\* Bots of the pipeline runs: both players and a third one.
PipeBots ==
    { Bot(1, 0, 0, 12, FALSE, FALSE),
      Bot(2, 500, 0, 6, TRUE, TRUE),
      Bot(3, 0, 0, 12, FALSE, FALSE) }

PipeTicks == {<< >>} \cup { << b >> : b \in PipeBots }

\* Bots of the runs on faulty data: a third player, alive with any flags, and dead.
DataBots ==
    { Bot(1, 0, 0, 12, FALSE, FALSE), Bot(3, 0, 0, 0, FALSE, TRUE) }
    \cup { Bot(3, 0, 0, 12, f, sh) : f \in BOOLEAN, sh \in BOOLEAN }

DataTicks ==
    {<< >>} \cup { << b >> : b \in DataBots }
            \cup { << Bot(1, 0, 0, 12, FALSE, FALSE), Bot(3, 0, 0, 12, FALSE, FALSE) >> }

\* Bots of the viewport runs, in a fixed order.
ViewBots ==
    << Bot(1, 0, 0, 12, FALSE, FALSE),
       Bot(1, 1, 0, 12, TRUE, FALSE),
       Bot(2, 30, 30, 6, FALSE, TRUE),
       Bot(2, 730, 730, 12, FALSE, FALSE),
       Bot(1, 760, 760, 0, FALSE, TRUE),
       Bot(3, 760, 0, 12, FALSE, FALSE) >>

RECURSIVE Pick(_, _)
\* The bots of ViewBots whose position is in s, from position k on, in order.
Pick(s, k) ==
    IF k > Len(ViewBots) THEN << >>
    ELSE IF k \in s THEN << ViewBots[k] >> \o Pick(s, k + 1)
         ELSE Pick(s, k + 1)

ViewTicks ==
    { Pick(s, 1) : s \in { t \in SUBSET (1..Len(ViewBots)) : Cardinality(t) <= MaxBots } }

SeqsUpTo(S, m) == UNION { [1..k -> S] : k \in 0..m }

PTCoords == (-MaxCoord)..MaxCoord

PTBoxes ==
    { Rect(x0, y0, x1, y1) : x0 \in PTCoords, y0 \in PTCoords,
                             x1 \in PTCoords, y1 \in PTCoords }

\* The call with main's padding and default size on a 100x50 box.
PTExample == [bounds |-> Rect(0, 0, 100, 50), padding |-> Padding, maxDim |-> 600]

\* Raw widths and heights whose padded lengths are 240, 290, 292, 340 and 577.
PTSpans == {0, 50, 52, 100, 337}

\* Calls as main makes them: main's padding, the default size, boxes of these spans.
PTMainCalls ==
    { [bounds |-> Rect(0, 0, w, h), padding |-> Padding, maxDim |-> 600] :
        w \in PTSpans, h \in PTSpans }

InitRest ==
    /\ drawn = [k \in Slots |-> NilImage]
    /\ converted = [k \in Slots |-> NilImage]
    /\ delays = [k \in Slots |-> 0]
    /\ i = 0
    /\ n = 1
    /\ tickBounds = ZeroRect
    /\ pt = ZeroPT
    /\ img = NilImage
    /\ overflowFired = FALSE
    /\ shrinkFired = FALSE
    /\ wpc = [w \in Workers |-> "select"]
    /\ wi = [w \in Workers |-> 0]
    /\ wpal = [w \in Workers |-> NilImage]
    /\ published = << >>
    /\ received = [w \in Workers |-> << >>]
    /\ doneSeen = [w \in Workers |-> 0]
    /\ acks = [w \in Workers |-> 0]
    /\ out = NoOutput

\* main after flag validation, the slices and channels made and the goroutines started.
Init ==
    /\ ticks \in SeqsUpTo(PipeTicks, MaxTicks)
    /\ threads \in 1..MaxThreads
    /\ ticksPerSecond \in Speeds
    /\ imageSize \in ImageSizes
    /\ pc = "init"
    /\ ptArgs = NoArgs
    /\ InitRest

InitData ==
    /\ ticks \in SeqsUpTo(DataTicks, MaxDataTicks)
    /\ threads \in {1, 2}
    /\ ticksPerSecond = 12
    /\ imageSize \in ImageSizes
    /\ pc = "init"
    /\ ptArgs = NoArgs
    /\ InitRest

InitView ==
    /\ ticks \in SeqsUpTo(ViewTicks, MaxViewTicks)
    /\ threads = 1
    /\ ticksPerSecond = 12
    /\ imageSize \in ImageSizes
    /\ pc = "init"
    /\ ptArgs = NoArgs
    /\ InitRest

\* Short runs over the same ticks, for what is drawn in one frame.
InitDraw ==
    /\ ticks \in SeqsUpTo(ViewTicks, MaxDrawTicks)
    /\ threads = 1
    /\ ticksPerSecond = 12
    /\ imageSize \in ImageSizes
    /\ pc = "init"
    /\ ptArgs = NoArgs
    /\ InitRest

InitPT ==
    /\ ticks = << >>
    /\ threads = 1
    /\ ticksPerSecond = 12
    /\ imageSize = 1
    /\ pc = "call"
    /\ ptArgs \in { [bounds |-> b, padding |-> p, maxDim |-> s] :
                      b \in { r \in PTBoxes : r.Min.X <= r.Max.X /\ r.Min.Y <= r.Max.Y },
                      p \in 0..MaxPad, s \in 1..MaxSize } \cup { PTExample } \cup PTMainCalls
    /\ InitRest

Next ==
    \/ InitialTransformer
    \/ TickBounds
    \/ OverflowCheck
    \/ ShrinkCheck
    \/ Draw
    \/ Store
    \/ \E w \in Workers : Publish(w)
    \/ Linger
    \/ \E w \in Workers : SignalDone(w)
    \/ \E w \in Workers : AwaitDone(w)
    \/ Encode
    \/ \E w \in Workers : Convert(w)
    \/ \E w \in Workers : PutConverted(w)
    \/ \E w \in Workers : ClearDrawn(w)

NextPT == CallNewPointTransformer

Spec == Init /\ [][Next]_vars

SpecView == InitView /\ [][Next]_vars

SpecDraw == InitDraw /\ [][Next]_vars

SpecPT == InitPT /\ [][NextPT]_vars

\* The Go scheduler runs every goroutine that can take a step.
FairSpec == Spec /\ WF_vars(Next)

SpecData == InitData /\ [][Next]_vars /\ WF_vars(Next)

(***************************************************************************)
(* Helpers of the properties.                                              *)
(***************************************************************************)
Range(f) == { f[k] : k \in DOMAIN f }

\* The rebuild policy of one tick applied to transformer p, as one function.
PolicyStep(p, tb) ==
    LET p1 == IF OverflowCond(tb, p) THEN NewPointTransformer(tb, Padding, imageSize) ELSE p
    IN  IF ShrinkCond(tb, p1) THEN NewPointTransformer(tb, Padding, imageSize) ELSE p1

RECURSIVE SequentialPT(_)
\* The transformer a single-threaded pass over the ticks uses for tick k.
SequentialPT(k) ==
    IF k = 0
    THEN PolicyStep(NewPointTransformer(Bounds(ticks[1]), Padding, imageSize), Bounds(ticks[1]))
    ELSE PolicyStep(SequentialPT(k - 1), Bounds(ticks[k + 1]))

\* The paletted frame of tick k when drawing and converting one tick after the other.
SequentialFrame(k) == Quantize(DrawFrame(ticks[k + 1], SequentialPT(k), imageSize))

\* No tick is empty and no living bot belongs to a third player: the run is not aborted.
ValidTicks ==
    /\ Len(ticks) >= 1
    /\ \A k \in 1..Len(ticks) : Len(ticks[k]) > 0 /\ ~DrawFatal(ticks[k])

\* A goroutine holds slot k from the receive of k until it has cleared drawn[k].
WorkerHolds(w, k) == wpc[w] \in {"convert", "put", "clear"} /\ wi[w] = k

\* main touches slot k of drawn only in the store of tick k.
DriverHolds(k) == pc = "store" /\ i = k

(***************************************************************************)
(* C1. Pipeline ordering: at the hand-over to the encoder, converted[k] is *)
(* the conversion of the frame drawn for tick k, for every k, as if the    *)
(* ticks had been drawn and converted one after the other; the number of   *)
(* goroutines and their scheduling make no difference.                     *)
(***************************************************************************)
PipelineOrdering ==
    pc = "encode" => \A k \in Slots : converted[k] = SequentialFrame(k)

\* Three frames went through two goroutines, the second goroutine taking slot 0.
PipelineOrderingWitness ==
    /\ pc = "encode"
    /\ Len(ticks) = 3
    /\ threads = 2
    /\ received[2] = << 0 >>
    /\ received[1] = << 1, 2 >>
    /\ converted[0] # converted[1]

(***************************************************************************)
(* C2. Handoff completeness: main is at the encoder only after every       *)
(* goroutine has acknowledged the shutdown, and then every slot holds a    *)
(* paletted frame and no full-colour frame; a goroutine that took the      *)
(* shutdown signal has converted and cleared every index it received; and  *)
(* every published index was received.                                     *)
(***************************************************************************)
HandoffCompleteness ==
    /\ pc = "encode" =>
          /\ \A w \in Workers : wpc[w] = "exit" /\ acks[w] = 1
          /\ \A k \in Slots : converted[k] # NilImage /\ drawn[k] = NilImage
          /\ Range(published) = Slots
    /\ \A w \in Workers :
          wpc[w] \in {"ack", "exit"} =>
             \A k \in Range(received[w]) : converted[k] # NilImage /\ drawn[k] = NilImage
    /\ Range(published) = UNION { Range(received[w]) : w \in Workers }

HandoffCompletenessWitness ==
    /\ pc = "encode"
    /\ Len(ticks) = 3
    /\ threads = 2
    /\ received[1] # << >>
    /\ received[2] # << >>

(***************************************************************************)
(* C3. Termination: the run stops only where the program ends (done, or    *)
(* an abort); no goroutine takes more than one shutdown signal or sends    *)
(* more than one acknowledgement; and with at least one tick, none of them *)
(* aborting the run, main eventually stands at the encoder with all        *)
(* indices published in order and every goroutine having taken exactly one *)
(* signal, sent exactly one acknowledgement and returned.                  *)
(***************************************************************************)
AtHandoff ==
    /\ pc = "encode"
    /\ published = [k \in 1..Len(ticks) |-> k - 1]
    /\ \A w \in Workers : doneSeen[w] = 1 /\ acks[w] = 1 /\ wpc[w] = "exit"

NoDeadlock == (~ENABLED Next) => pc \in {"done", "fatal", "panic"}

Termination ==
    /\ [](NoDeadlock /\ \A w \in Workers : doneSeen[w] <= 1 /\ acks[w] <= 1)
    /\ (ValidTicks => <>AtHandoff)

TerminationWitness ==
    /\ AtHandoff
    /\ Len(ticks) = 3
    /\ threads = 2

(***************************************************************************)
(* C9. Single writer per slot: the indices are published as 0, 1, 2, ...   *)
(* each once; each published index was received by exactly one goroutine,  *)
(* once; main stores drawn[k] before k is published; and never do two      *)
(* parties (main and a goroutine, or two goroutines) hold the same slot.   *)
(***************************************************************************)
SingleWriterPerSlot ==
    /\ published = [k \in 1..Len(published) |-> k - 1]
    /\ Len(published) = i
    /\ \A k \in Range(published) :
          /\ Cardinality({ w \in Workers : k \in Range(received[w]) }) = 1
          /\ \A w \in Workers :
                Cardinality({ j \in 1..Len(received[w]) : received[w][j] = k }) <= 1
    /\ \A k \in Slots :
          /\ DriverHolds(k) => k \notin Range(published) /\ \A w \in Workers : ~WorkerHolds(w, k)
          /\ \A w1, w2 \in Workers : WorkerHolds(w1, k) /\ WorkerHolds(w2, k) => w1 = w2
          /\ (\E w \in Workers : WorkerHolds(w, k)) => k \in Range(published)

\* main stores slot 2 while the two goroutines hold slots 0 and 1.
SingleWriterPerSlotWitness ==
    /\ DriverHolds(2)
    /\ threads = 2
    /\ WorkerHolds(1, 1)
    /\ WorkerHolds(2, 0)

(***************************************************************************)
(* C4. Duration law: with at least two ticks, the delays handed to the     *)
(* encoder are 100 for slot 0, 100/speed for the slots between, and        *)
(* (100/speed)*10 for the last slot.                                       *)
(***************************************************************************)
DurationLaw ==
    (pc = "encode" /\ Len(ticks) >= 2) =>
        /\ delays[0] = 100
        /\ \A k \in 1..(Len(ticks) - 2) : delays[k] = 100 \div ticksPerSecond
        /\ delays[Len(ticks) - 1] = (100 \div ticksPerSecond) * 10

(***************************************************************************)
(* C5. Square equivalence: the box stored by NewPointTransformer(B, P, S)  *)
(* is as wide as it is high, for every box B with Min <= Max, P >= 0 and   *)
(* S >= 1.                                                                 *)
(***************************************************************************)
SquareEquivalence ==
    pc = "return" => PtXSize(pt) = PtYSize(pt)

(***************************************************************************)
(* C6. Agents stay on canvas: when a tick is drawn, after the two checks   *)
(* of that tick, the tick's bounding box widened by BotSize on all four    *)
(* sides lies inside the box of the transformer in use.                    *)
(***************************************************************************)
AgentsStayOnCanvas ==
    pc = "draw" =>
        /\ tickBounds = Bounds(ticks[i + 1])
        /\ tickBounds.Min.X - BotSize >= pt.Bounds.Min.X
        /\ tickBounds.Min.Y - BotSize >= pt.Bounds.Min.Y
        /\ tickBounds.Max.X + BotSize <= pt.Bounds.Max.X
        /\ tickBounds.Max.Y + BotSize <= pt.Bounds.Max.Y

\* A later tick left the view of the tick before it and is about to be drawn.
AgentsStayOnCanvasWitness ==
    /\ pc = "draw"
    /\ i = 1
    /\ overflowFired
    /\ ~shrinkFired

(***************************************************************************)
(* C7. Shrink trigger.  As claimed: the shrink check fires exactly when    *)
(* the tick's width and height are each at most 75% of the stored box's    *)
(* width and height (100*w <= 75*W and 100*h <= 75*H).                     *)
(***************************************************************************)
ShrinkAtExactPercent ==
    [][ (pc = "shrink" /\ pc' = "draw") =>
          (shrinkFired' <=>
              /\ 100 * ThisYSize(tickBounds) <= ShrinkPercent * PtYSize(pt)
              /\ 100 * ThisXSize(tickBounds) <= ShrinkPercent * PtXSize(pt)) ]_vars

(***************************************************************************)
(* C7, amended.  The percentages are whole numbers, rounded down: the      *)
(* check fires exactly when the tick's width and height are each below 76% *)
(* of the stored box's (100*w < 76*W and 100*h < 76*H), and then the       *)
(* transformer is the one built from the tick's bounds.                    *)
(***************************************************************************)
ShrinkAtTruncatedPercent ==
    [][ (pc = "shrink" /\ pc' = "draw") =>
          /\ shrinkFired' <=>
                /\ 100 * ThisYSize(tickBounds) < (ShrinkPercent + 1) * PtYSize(pt)
                /\ 100 * ThisXSize(tickBounds) < (ShrinkPercent + 1) * PtXSize(pt)
          /\ shrinkFired' => pt' = NewPointTransformer(tickBounds, Padding, imageSize) ]_vars

\* A 700x700 tick against the 1000x1000 box of the tick before: shrink without overflow.
ShrinkAtTruncatedPercentWitness ==
    /\ pc = "draw"
    /\ i = 1
    /\ shrinkFired
    /\ ~overflowFired
    /\ ThisXSize(tickBounds) = 700
    /\ ThisYSize(tickBounds) = 700
    /\ PtXSize(SequentialPT(0)) = 1000
    /\ PtYSize(SequentialPT(0)) = 1000

(***************************************************************************)
(* C8. Fatal data error.  As claimed: whenever some bot of some tick has a *)
(* player other than 1 or 2, whatever its health, the run never reaches    *)
(* the encoder and writes no output.                                       *)
(***************************************************************************)
HasThirdPlayer ==
    \E k \in 1..Len(ticks) : \E j \in 1..Len(ticks[k]) : ticks[k][j].PID \notin {1, 2}

FatalOnAnyThirdPlayer ==
    HasThirdPlayer => pc \notin {"encode", "done"} /\ out = NoOutput

(***************************************************************************)
(* C8, amended.  Whenever some bot with health > 0 has a player other than *)
(* 1 or 2, the run never reaches the encoder and writes no output, no      *)
(* frame of such a tick is stored, and the run ends aborted; a bot with    *)
(* health <= 0 is never tested for its player.                             *)
(***************************************************************************)
HasLivingThirdPlayer ==
    \E k \in 1..Len(ticks) : \E j \in 1..Len(ticks[k]) :
        ticks[k][j].PID \notin {1, 2} /\ ticks[k][j].Health > 0

FatalOnLivingThirdPlayer ==
    /\ [](HasLivingThirdPlayer =>
            /\ pc \notin {"encode", "done"}
            /\ out = NoOutput
            /\ \A k \in Slots :
                  (\E j \in 1..Len(ticks[k + 1]) :
                      ticks[k + 1][j].PID \notin {1, 2} /\ ticks[k + 1][j].Health > 0)
                  => drawn[k] = NilImage /\ converted[k] = NilImage /\ k \notin Range(published))
    /\ (HasLivingThirdPlayer => <>(pc \in {"fatal", "panic"}))

\* The run was aborted in the middle: frames were published before the fatal tick.
FatalOnLivingThirdPlayerWitness ==
    /\ pc = "fatal"
    /\ HasLivingThirdPlayer
    /\ i = 2
    /\ Len(published) = 2
    /\ out = NoOutput

(***************************************************************************)
(* C10. Empty tick is rejected: computing the bounds of a tick without     *)
(* bots aborts the run; main never gets past that tick, no frame of that   *)
(* tick or of a later one is stored or published, nothing is written, and  *)
(* the run ends aborted.                                                   *)
(***************************************************************************)
EmptyTickRejected ==
    /\ [](\A k \in Slots :
            Len(ticks[k + 1]) = 0 =>
               /\ i <= k
               /\ (i = k => pc \in {"init", "bounds", "panic"})
               /\ \A j \in k..(Len(ticks) - 1) :
                     drawn[j] = NilImage /\ converted[j] = NilImage /\ j \notin Range(published)
               /\ pc \notin {"encode", "done"}
               /\ out = NoOutput)
    /\ ((\E k \in 1..Len(ticks) : Len(ticks[k]) = 0) => <>(pc \in {"panic", "fatal"}))

\* The bounds of the empty third tick were asked for after two frames were published.
EmptyTickRejectedWitness ==
    /\ pc = "panic"
    /\ i = 2
    /\ Len(ticks) = 3
    /\ Len(ticks[3]) = 0
    /\ Len(published) = 2

(***************************************************************************)
(* C11. In-box points map into the raster.  As claimed: for the            *)
(* transformer of every call NewPointTransformer(B, P, S) and every        *)
(* integer point (x, y) of its stored box, 0 <= T.X(x) <= S and            *)
(* 0 <= T.Y(y) <= S.                                                       *)
(***************************************************************************)
InBoxPointsInRaster ==
    pc = "return" =>
        /\ \A x \in pt.Bounds.Min.X .. pt.Bounds.Max.X :
              IntLeqF(0, X(pt, x)) /\ FLeqInt(X(pt, x), ptArgs.maxDim)
        /\ \A y \in pt.Bounds.Min.Y .. pt.Bounds.Max.Y :
              IntLeqF(0, Y(pt, y)) /\ FLeqInt(Y(pt, y), ptArgs.maxDim)

(***************************************************************************)
(* C11, amended.  Whenever the longer padded side, the divisor of the      *)
(* ratio, is not 0: 0 <= T.X(x), and T.X(x) <= S up to float64 rounding,   *)
(* that is T.X(x) <= S or T.X(x) is the float64 next above S; in integers  *)
(* 0 <= (x - Min.X) * S <= S * longerLen; likewise for y.  With P = 0 and  *)
(* a box of one point the divisor is 0 and T.X, T.Y of that point are NaN. *)
(***************************************************************************)
InBoxPointsInRasterFinite ==
    pc = "return" =>
        /\ pt.ratio.den > 0 =>
              LET above == NextUp(F64FromInt(ptArgs.maxDim))
              IN  /\ \A x \in pt.Bounds.Min.X .. pt.Bounds.Max.X :
                        /\ IntLeqF(0, X(pt, x))
                        /\ FLeqInt(X(pt, x), ptArgs.maxDim) \/ X(pt, x) = above
                        /\ 0 <= (x - pt.Bounds.Min.X) * ptArgs.maxDim
                        /\ (x - pt.Bounds.Min.X) * ptArgs.maxDim <= ptArgs.maxDim * pt.ratio.den
                  /\ \A y \in pt.Bounds.Min.Y .. pt.Bounds.Max.Y :
                        /\ IntLeqF(0, Y(pt, y))
                        /\ FLeqInt(Y(pt, y), ptArgs.maxDim) \/ Y(pt, y) = above
                        /\ 0 <= (y - pt.Bounds.Min.Y) * ptArgs.maxDim
                        /\ (y - pt.Bounds.Min.Y) * ptArgs.maxDim <= ptArgs.maxDim * pt.ratio.den
        /\ pt.ratio.den = 0 =>
              /\ ptArgs.padding = 0
              /\ ptArgs.bounds.Min = ptArgs.bounds.Max
              /\ IsNaN(X(pt, pt.Bounds.Min.X))
              /\ IsNaN(Y(pt, pt.Bounds.Min.Y))

\* A call of main's kind whose far corner maps to the float64 next above S.
InBoxPointsInRasterFiniteWitness ==
    /\ pc = "return"
    /\ ptArgs.padding = Padding
    /\ pt.ratio.den > 0
    /\ ~FLeqInt(X(pt, pt.Bounds.Max.X), ptArgs.maxDim)
    /\ X(pt, pt.Bounds.Max.X) = NextUp(F64FromInt(ptArgs.maxDim))
    /\ FEqInt(X(pt, pt.Bounds.Min.X), 0)

(***************************************************************************)
(* C12. Backpressure bound: an index is published only to a goroutine that *)
(* is idle, so at most W published indices are not yet converted and       *)
(* cleared, each of them held by a goroutine, and at most W + 1 slots hold *)
(* a full-colour frame.                                                    *)
(***************************************************************************)
InFlight == { k \in Range(published) : converted[k] = NilImage \/ drawn[k] # NilImage }

BackpressureBound ==
    /\ Cardinality(InFlight) <= threads
    /\ \A k \in InFlight : \E w \in Workers : WorkerHolds(w, k)
    /\ Cardinality({ k \in Slots : drawn[k] # NilImage }) <= threads + 1

\* Both goroutines hold a frame and main has stored a third one.
BackpressureBoundWitness ==
    /\ threads = 2
    /\ pc = "publish"
    /\ Cardinality(InFlight) = 2
    /\ Cardinality({ k \in Slots : drawn[k] # NilImage }) = 3

(***************************************************************************)
(* C13. Single-tick duration: with one tick both overrides write slot 0    *)
(* and the last one stays, so the encoder gets the single delay            *)
(* (100/speed)*10.                                                         *)
(***************************************************************************)
SingleTickDuration ==
    /\ (pc = "encode" /\ Len(ticks) = 1) =>
          delays = [k \in {0} |-> (100 \div ticksPerSecond) * 10]
    /\ (pc = "done" /\ Len(ticks) = 1) =>
          out.Delay = [k \in {0} |-> (100 \div ticksPerSecond) * 10]

\* At speed 100 the single delay is 10, where the first-frame value would be 1.
SingleTickDurationWitness ==
    /\ pc = "done"
    /\ Len(ticks) = 1
    /\ ticksPerSecond = 100
    /\ out.Delay[0] = 10

(***************************************************************************)
(* C14. Rebuild source and frame condition: the transformer a tick is      *)
(* drawn with is the one of the tick before when neither check fired at    *)
(* this tick, and NewPointTransformer(bounds of this tick, Padding, size)  *)
(* when either fired; tick 0 is drawn with the transformer of its own      *)
(* bounds; and the frame is drawn with that transformer.                   *)
(* While main is between the checks and the drawing, img still is the      *)
(* frame of the tick before.                                               *)
(***************************************************************************)
FreshPT(k) == NewPointTransformer(Bounds(ticks[k + 1]), Padding, imageSize)

RebuildSource ==
    /\ pc = "draw" =>
          /\ i = 0 => pt = FreshPT(0)
          /\ (overflowFired \/ shrinkFired) => pt = FreshPT(i)
          /\ (i > 0 /\ ~overflowFired /\ ~shrinkFired) =>
                img.Bots = ticks[i] /\ pt = img.View
    /\ pc = "store" => img.Bots = ticks[i + 1] /\ img.View = pt

\* A tick with other bounds than the tick before is drawn with the kept transformer.
RebuildSourceWitness ==
    /\ pc = "draw"
    /\ i = 1
    /\ ~overflowFired
    /\ ~shrinkFired
    /\ Bounds(ticks[2]) # Bounds(ticks[1])
    /\ pt # FreshPT(1)
    /\ pt = FreshPT(0)

(***************************************************************************)
(* C15. Layered draw order.  As claimed: the operations of a frame come in *)
(* the order grid, logo, tracers, explosions, bodies with their health     *)
(* mark, shields; no operation of an earlier layer comes after one of a    *)
(* later layer, so every shield follows every body.                        *)
(***************************************************************************)
LayerRank(op) ==
    CASE op.layer = "grid" -> 1
      [] op.layer = "logo" -> 2
      [] op.layer = "shot" -> 3
      [] op.layer = "explosion" -> 4
      [] op.layer = "body" -> 5
      [] op.layer = "health" -> 5
      [] op.layer = "shield" -> 6

FrameOps == DrawOps(img.Bots, img.View)

Layered(ops) ==
    \A a, b \in 1..Len(ops) : a < b => LayerRank(ops[a]) <= LayerRank(ops[b])

LayeredDrawOrder ==
    pc = "store" => LET ops == FrameOps IN Layered(ops)

(***************************************************************************)
(* C15, amended.  Grid, logo, tracers (bots with Fired) and explosions     *)
(* (bots with Health <= 0) come as layers in this order; then one pass     *)
(* over the living bots in tick order draws for each its body, its health  *)
(* mark and, if set, its shield.  A shield follows the body of its own bot *)
(* and of the bots before it and precedes the bodies of the bots after it; *)
(* a bot with Health <= 0 gets no shield.                                  *)
(***************************************************************************)
PassRank(op) == IF LayerRank(op) >= 5 THEN 5 ELSE LayerRank(op)

WithinBot(op) ==
    CASE op.layer = "body" -> 1
      [] op.layer = "health" -> 2
      [] op.layer = "shield" -> 3
      [] OTHER -> 0

BotsOfLayer(ops, layer) ==
    { ops[a].bot : a \in { c \in 1..Len(ops) : ops[c].layer = layer } }

LayeredPerBot(ops, bots) ==
    /\ \A a, b \in 1..Len(ops) :
          a < b =>
             /\ PassRank(ops[a]) <= PassRank(ops[b])
             /\ (PassRank(ops[a]) = 5 /\ PassRank(ops[b]) = 5) =>
                   /\ ops[a].bot <= ops[b].bot
                   /\ ops[a].bot = ops[b].bot => WithinBot(ops[a]) < WithinBot(ops[b])
    /\ BotsOfLayer(ops, "shot") = { k \in 1..Len(bots) : bots[k].Fired }
    /\ BotsOfLayer(ops, "explosion") = { k \in 1..Len(bots) : bots[k].Health <= 0 }
    /\ BotsOfLayer(ops, "body") = { k \in 1..Len(bots) : bots[k].Health > 0 }
    /\ BotsOfLayer(ops, "shield") = { k \in 1..Len(bots) : bots[k].Health > 0 /\ bots[k].Shield }

LayeredDrawOrderPerBot ==
    pc = "store" => LET ops == FrameOps IN LayeredPerBot(ops, img.Bots)

\* The shield of the first bot is drawn before the body of the second bot.
LayeredDrawOrderPerBotWitness ==
    /\ pc = "store"
    /\ LET ops == FrameOps
       IN  /\ \E a, b \in 1..Len(ops) :
                 a < b /\ ops[a].layer = "shield" /\ ops[b].layer = "body"
           /\ BotsOfLayer(ops, "grid") = {0}

(***************************************************************************)
(* C16. Finalization order.  As claimed: the two delay overrides are       *)
(* written only after every goroutine has acknowledged the shutdown.       *)
(***************************************************************************)
FinalizeAfterAcks ==
    [][ (pc = "linger" /\ pc' = "signal") =>
           \A w \in Workers : acks[w] = 1 /\ wpc[w] = "exit" ]_vars

(***************************************************************************)
(* C16, amended.  The two delay overrides are written after the loop has   *)
(* published all N indices and before main sends the first shutdown        *)
(* signal: no goroutine has then taken a signal or acknowledged, and some  *)
(* may still be converting.  From then to the encoder the delays do not    *)
(* change.                                                                 *)
(***************************************************************************)
FinalizeAfterLoop ==
    [][ /\ (pc = "linger" /\ pc' = "signal") =>
              /\ published = [k \in 1..Len(ticks) |-> k - 1]
              /\ \A w \in Workers : doneSeen[w] = 0 /\ acks[w] = 0 /\ wpc[w] # "exit"
              /\ delays'[0] = IF Len(ticks) = 1 THEN (100 \div ticksPerSecond) * 10 ELSE 1
              /\ delays'[Len(ticks) - 1] = (100 \div ticksPerSecond) * 10
        /\ delays' # delays => pc \in {"store", "linger"}
        /\ (\E w \in Workers : doneSeen[w] > 0) => delays' = delays ]_vars

\* The overrides are in place while a goroutine is still converting the last frame.
FinalizeAfterLoopWitness ==
    /\ pc = "signal"
    /\ n = 1
    /\ Len(ticks) >= 2
    /\ delays[Len(ticks) - 1] = (100 \div ticksPerSecond) * 10
    /\ \E w \in Workers : wpc[w] = "convert" /\ wi[w] = Len(ticks) - 1

\* The box of the call widened by the padding on its four sides.
Padded(a) ==
    Rect(a.bounds.Min.X - a.padding, a.bounds.Min.Y - a.padding,
         a.bounds.Max.X + a.padding, a.bounds.Max.Y + a.padding)

\* What C17 says of the transformer p returned for the call a.  The product
\* ratio * length is asked to be S exactly, for every call; or, where the
\* length is positive, to be S up to float64 rounding: S or a float64 next to it.
Construction(a, p, exactly) ==
    LET b == Padded(a)
        xLength == b.Max.X - b.Min.X
        yLength == b.Max.Y - b.Min.Y
        yConstrained == ~(xLength > yLength)
        longer == IF yConstrained THEN yLength ELSE xLength
        half == GoDiv(Abs(xLength - yLength), 2)
        product == FMulInt(p.ratio, longer)
        size == F64FromInt(a.maxDim)
    IN  /\ p.ratio = Frac(a.maxDim, longer)
        /\ exactly => FEqInt(product, a.maxDim)
        /\ (~exactly /\ longer > 0) => product \in {size, NextUp(size), NextDown(size)}
        /\ yConstrained =>
              /\ p.Bounds.Min.Y = b.Min.Y /\ p.Bounds.Max.Y = b.Max.Y
              /\ p.Bounds.Min.X = b.Min.X - half /\ p.Bounds.Max.X = b.Max.X + half
        /\ ~yConstrained =>
              /\ p.Bounds.Min.X = b.Min.X /\ p.Bounds.Max.X = b.Max.X
              /\ p.Bounds.Min.Y = b.Min.Y - half /\ p.Bounds.Max.Y = b.Max.Y + half
        /\ p.Bounds.Min.X + p.Bounds.Max.X = b.Min.X + b.Max.X
        /\ p.Bounds.Min.Y + p.Bounds.Max.Y = b.Min.Y + b.Max.Y
        /\ \A d \in 1..longer :
              /\ F64Eq(X(p, p.Bounds.Min.X + d), Resize(p, d))
              /\ F64Eq(Y(p, p.Bounds.Min.Y + d), Resize(p, d))
        /\ a = PTExample => p = [Bounds |-> Rect(-120, -145, 220, 195), ratio |-> Frac(600, 340)]

(***************************************************************************)
(* C17. Transformer construction.  As claimed: for every call the box is   *)
(* padded on four sides, the longer padded axis is stored unchanged and    *)
(* ratio * its length = S, ties make Y the constrained axis, the shorter   *)
(* axis gets difference/2 on both sides, X and Y share the ratio, and the  *)
(* 100x50 example gives X [-120, 220], Y [-145, 195], ratio 600/340.       *)
(***************************************************************************)
TransformerConstruction ==
    pc = "return" => Construction(ptArgs, pt, TRUE)

(***************************************************************************)
(* C17, amended.  The same construction, with ratio = float64(S) /         *)
(* float64(length) and, where the longer padded length is positive,        *)
(* ratio * length = S up to float64 rounding: the product is S or one of   *)
(* the two float64 next to S.  For a one-point box and padding 0 the ratio *)
(* is S/0 and the product is not a number.                                 *)
(***************************************************************************)
TransformerConstructionFinite ==
    pc = "return" => Construction(ptArgs, pt, FALSE)

\* A call of main's kind has returned a ratio whose product with the length is not S.
TransformerConstructionFiniteWitness ==
    /\ pc = "return"
    /\ ptArgs \in PTMainCalls
    /\ pt.Bounds = Rect(-120, -120, 172, 172)
    /\ pt.ratio = Frac(600, 292)
    /\ FMulInt(pt.ratio, 292) = NextUp(F64FromInt(600))

\* main holds a transformer: the initial one is built and the run did not panic.
TransformerActive == pc \notin {"init", "panic", "call", "return"}

(***************************************************************************)
(* C18. Non-degenerate stored box: with non-empty ticks only, every        *)
(* transformer main holds is at least 2 * Padding > 0 wide and high, its   *)
(* ratio is finite, and the shrink check divides by no zero, also for a    *)
(* tick of one agent, whose own bounding box has no width and no height.   *)
(***************************************************************************)
NonDegenerateBox ==
    (TransformerActive /\ \A k \in 1..Len(ticks) : Len(ticks[k]) > 0) =>
        /\ 2 * Padding > 0
        /\ PtXSize(pt) >= 2 * Padding
        /\ PtYSize(pt) >= 2 * Padding
        /\ pt.ratio.den > 0
        /\ pc = "shrink" => ~ShrinkDividesByZero(tickBounds, pt)

\* The shrink check of a one-agent tick against a box of exactly 2 * Padding.
NonDegenerateBoxWitness ==
    /\ pc = "shrink"
    /\ i >= 1
    /\ Len(ticks[i + 1]) = 1
    /\ ThisXSize(tickBounds) = 0
    /\ ThisYSize(tickBounds) = 0
    /\ PtXSize(pt) = 2 * Padding
    /\ PtYSize(pt) = 2 * Padding

\* The transformer the checks of tick i started from.
PrevPT == IF i = 0 THEN FreshPT(0) ELSE img.View

\* Tick i has the raw bounds of the tick before it.
SameBoundsAsBefore == i > 0 /\ Bounds(ticks[i]) = Bounds(ticks[i + 1])

(***************************************************************************)
(* C19. Rebuild fixpoint.  As claimed: when the checks of a tick start     *)
(* from the transformer freshly built from that tick's bounds, or from the *)
(* transformer of a tick with the same bounds, neither check fires.        *)
(***************************************************************************)
RebuildFixpointNoTrigger ==
    (pc = "draw" /\ (PrevPT = FreshPT(i) \/ SameBoundsAsBefore)) =>
        ~overflowFired /\ ~shrinkFired

(***************************************************************************)
(* C19, amended.  The transformer freshly built from a tick's bounds is    *)
(* left as it is by that tick's checks: the overflow check does not fire   *)
(* against it, and the shrink check fires exactly when both spans of the   *)
(* tick are within ShrinkPercent of the fresh box and then builds the same *)
(* transformer again.  Over consecutive ticks of identical bounds the      *)
(* overflow check does not fire and the transformer in use stays the same. *)
(***************************************************************************)
RebuildFixpointSameTransformer ==
    pc = "draw" =>
        /\ ~OverflowCond(tickBounds, FreshPT(i))
        /\ PolicyStep(FreshPT(i), tickBounds) = FreshPT(i)
        /\ PrevPT = FreshPT(i) =>
              /\ ~overflowFired
              /\ shrinkFired <=> ShrinkCond(tickBounds, FreshPT(i))
              /\ pt = PrevPT
        /\ SameBoundsAsBefore => ~overflowFired /\ pt = PrevPT

\* The second of two ticks of identical bounds fires the shrink check again.
RebuildFixpointSameTransformerWitness ==
    /\ pc = "draw"
    /\ i = 1
    /\ SameBoundsAsBefore
    /\ shrinkFired
    /\ pt = FreshPT(1)
    /\ pt = img.View

=============================================================================
